---- MODULE Spec2Model ----
(***************************************************************************)
(* Model of src/src/provider.ts: the three tree-data adapters              *)
(* (ReferencesProvider, CallItemDataProvider, HistoryDataProvider) and the *)
(* TreeDataProviderWrapper that rebinds them at runtime.                   *)
(*                                                                         *)
(* Objects are identified by small integers: adapter number a is the       *)
(* a-th adapter constructed by update, its emitter has the same number,    *)
(* and emitter 0 is the wrapper's own _onDidChange.  Tree nodes and models *)
(* are strings.  The JavaScript value undefined is the string "undefined". *)
(***************************************************************************)
EXTENDS Integers, Sequences, FiniteSets, TLC

VARIABLES
    wrapper,    \* TreeDataProviderWrapper fields: _provider, _providerListener, _onDidChange
    adapters,   \* every adapter constructed so far, in construction order
    emitters,   \* every vscode.EventEmitter constructed so far: disposed flag and listeners
    nsubs,      \* number of listeners the wrapper has registered on adapter streams
    history,    \* the History collaborator's records, in iteration order
    emitted,    \* what the host's listener on wrapper.onDidChangeTreeData has received
    nfires,     \* number of calls of fire on the wrapper's _onDidChange
    fired,      \* what the adapters' onDidChangeTreeData streams have emitted
    raised,     \* the change events the domain models have raised
    lastCall,   \* the last tree query made and its outcome
    historyMark,\* the adapter bound at the last history change, and Len(fired) then
    resolved,   \* the nodes resolveCalls was invoked with by the last operation
    stack,      \* the update calls suspended in their full-refresh fire, innermost last
    pending,    \* an asynchronous query whose promise has not settled yet
    delivered   \* the last settled promise handed to the host

vars == <<wrapper, adapters, emitters, nsubs, history, emitted, nfires, fired, raised,
          lastCall, historyMark, resolved, stack, pending, delivered>>

(***************************************************************************)
(* Bounds of the exploration.                                              *)
(***************************************************************************)
MaxUpdates == 3     \* calls of update
MaxRaised  == 2     \* change events raised by the domain models
MaxHistory == 2     \* records in the history
MaxDepth   == 2     \* update calls suspended in one another
MaxEnters  == 2     \* calls of update where the host's listener may call back

(***************************************************************************)
(* Values.                                                                 *)
(***************************************************************************)
Undefined == "undefined"

\* this._provider / this._providerListener when unset
NoProvider == 0
NoListener == [emitter |-> 0, id |-> 0]

\* the emitter the wrapper constructs for itself
OutwardEmitter == 0

\* the host's single listener on wrapper.onDidChangeTreeData
Host == "host"

(***************************************************************************)
(* The domain models handed to update, and their nodes.  The classes live  *)
(* in models.ts and history.ts; provider.ts reads items, results, parent,  *)
(* roots and resolveCalls and iterates the history.                        *)
(***************************************************************************)
ReferencesModels == {"R"}
CallsModels      == {"C"}
Histories        == {"H"}
Models           == ReferencesModels \cup CallsModels \cup Histories

FileItems      == {"f1", "f2"}
ReferenceItems == {"r1", "r2", "r3"}
CallItems      == {"c1", "c2"}
HistoryItems   == {"h1", "h2"}
Elements       == FileItems \cup ReferenceItems \cup CallItems \cup HistoryItems

\* ReferencesModel.items
items(m) == <<"f1", "f2">>

\* FileItem.results
results(f) == IF f = "f1" THEN <<"r1", "r2">> ELSE <<"r3">>

\* CallsModel.roots
roots(m) == <<"c1">>

\* CallsModel.resolveCalls
resolveCalls(m, c) == IF c = "c1" THEN <<"c2">> ELSE << >>

\* the parent property of a node, whatever its class
parentOf(e) ==
    CASE e \in {"r1", "r2"} -> "f1"
      [] e = "r3"           -> "f2"
      [] e = "c2"           -> "c1"
      [] OTHER              -> Undefined

\* the payloads a model's change stream can carry
ChangePayloads(m) ==
    IF m \in ReferencesModels THEN {"f1", "r1", Undefined} ELSE {"c1", Undefined}

(***************************************************************************)
(* vscode.EventEmitter: fire calls every registered listener, dispose      *)
(* drops the listeners and turns later fire and subscribe into no-ops.     *)
(***************************************************************************)
NewEmitter == [disposed |-> FALSE, listeners |-> {}]

WithEmitter(ems, id, em) ==
    [i \in DOMAIN ems \cup {id} |-> IF i = id THEN em ELSE ems[i]]

\* EventEmitter.dispose()
EmitterDispose(ems, id) ==
    WithEmitter(ems, id, [disposed |-> TRUE, listeners |-> {}])

\* EventEmitter.event(listener)
EmitterSubscribe(ems, id, l) ==
    IF ems[id].disposed THEN ems
    ELSE WithEmitter(ems, id, [ems[id] EXCEPT !.listeners = @ \cup {l}])

\* the Disposable returned by EventEmitter.event(listener)
ListenerDispose(ems, id, l) ==
    WithEmitter(ems, id, [ems[id] EXCEPT !.listeners = @ \ {l}])

(***************************************************************************)
(* The objects the operations below work on, as one record.                *)
(***************************************************************************)
Heap ==
    [wrapper |-> wrapper, adapters |-> adapters, emitters |-> emitters,
     nsubs |-> nsubs, emitted |-> emitted, nfires |-> nfires, fired |-> fired]

RECURSIVE Receive(_, _, _)
\* each of the n host listeners receives entry x
Receive(h, x, n) ==
    IF n = 0 THEN h ELSE Receive([h EXCEPT !.emitted = Append(@, x)], x, n - 1)

\* this._onDidChange.fire(e) of the wrapper: every host listener receives e.
\* from and upd record who fired and which adapter was the newest then.
FireOutward(h, e, src) ==
    LET em == h.emitters[h.wrapper._onDidChange]
        h1 == [h EXCEPT !.nfires = @ + 1]
    IN  IF em.disposed THEN h1
        ELSE Receive(h1, [payload |-> e, from |-> src, upd |-> Len(h.adapters)],
                     Cardinality(em.listeners))

\* a listener that forwards every event as a full refresh
WrapperListener_dropPayload(h, a, e) == FireOutward(h, Undefined, a)

\* the listener update registers on the adapter's stream
WrapperListener(h, a, e) == FireOutward(h, e, a)

RECURSIVE Forward(_, _, _, _)
\* each of the n listeners on the stream of adapter a runs with e
Forward(h, a, e, n) ==
    IF n = 0 THEN h ELSE Forward(WrapperListener(h, a, e), a, e, n - 1)

\* fire(e) on the emitter of adapter a: every registered listener forwards e
FireAdapter(h, a, e) ==
    LET em == h.emitters[h.adapters[a].emitter]
    IN  IF em.disposed THEN h
        ELSE Forward([h EXCEPT !.fired = Append(@, [adapter |-> a, payload |-> e,
                                               active |-> (h.wrapper._provider = a)])],
                     a, e, Cardinality(em.listeners))

\* a listener that re-emits the model's payload as it is
ModelListenerVerbatim(h, a, e) == FireAdapter(h, a, e)

\* the listener the ReferencesProvider constructor registers on its model
ModelListener(h, a, e) ==
    FireAdapter(h, a, IF e \in FileItems THEN e ELSE Undefined)

\* the adapters whose _modelListener is registered on model m
Subscribed(ads, m) ==
    {a \in 1..Len(ads) : ads[a].model = m /\ ads[a].modelListener}

RECURSIVE RaiseFrom(_, _, _, _)
\* ReferencesModel.onDidChange fires e: its listeners run in registration order
RaiseFrom(h, m, e, a) ==
    IF a > Len(h.adapters) THEN h
    ELSE RaiseFrom(IF a \in Subscribed(h.adapters, m) THEN ModelListener(h, a, e) ELSE h,
                   m, e, a + 1)

\* dispose that releases the emitter and keeps the model listener
ReferencesProvider_dispose_keepListener(h, a) ==
    [h EXCEPT !.emitters = EmitterDispose(@, h.adapters[a].emitter)]

\* dispose that releases the wrapper's emitter in place of its own
ReferencesProvider_dispose_outward(h, a) ==
    [h EXCEPT !.emitters = EmitterDispose(@, h.wrapper._onDidChange),
              !.adapters[a].modelListener = FALSE]

\* ReferencesProvider.dispose()
ReferencesProvider_dispose(h, a) ==
    [h EXCEPT !.emitters = EmitterDispose(@, h.adapters[a].emitter),
              !.adapters[a].modelListener = FALSE]

\* typeof provider.dispose === 'function': only ReferencesProvider declares dispose
HasDispose(ad) == ad.kind = "ReferencesProvider"

\* an update that releases nothing of the previous adapter
releasePrevious_skip(h) == h

\* update, first part: release the previous subscription and adapter
releasePrevious(h) ==
    LET l  == h.wrapper._providerListener
        h1 == IF l # NoListener
              THEN [h EXCEPT !.emitters = ListenerDispose(@, l.emitter, l.id),
                             !.wrapper._providerListener = NoListener]
              ELSE h
        p  == h1.wrapper._provider
    IN  IF p # NoProvider /\ HasDispose(h1.adapters[p])
        THEN [ReferencesProvider_dispose(h1, p) EXCEPT !.wrapper._provider = NoProvider]
        ELSE h1

\* a dispatch that tests for ReferencesModel only
KindOf_referencesOnly(m) ==
    IF m \in ReferencesModels THEN "ReferencesProvider" ELSE "HistoryDataProvider"

\* the adapter class update selects for a model
KindOf(m) ==
    CASE m \in ReferencesModels -> "ReferencesProvider"
      [] m \in CallsModels      -> "CallItemDataProvider"
      [] OTHER                  -> "HistoryDataProvider"

\* update, second part: construct the adapter for the model.  Each adapter
\* constructs its own emitter; only ReferencesProvider subscribes to its model.
constructProvider(h, m) ==
    LET a == Len(h.adapters) + 1
    IN  [h EXCEPT !.adapters = Append(@, [kind |-> KindOf(m), model |-> m, emitter |-> a,
                                          modelListener |-> (m \in ReferencesModels)]),
                  !.emitters = WithEmitter(@, a, NewEmitter),
                  !.wrapper._provider = a]

\* update, last part: subscribe to the active adapter's stream
subscribeProvider(h) ==
    LET em == h.adapters[h.wrapper._provider].emitter
        l  == h.nsubs + 1
    IN  [h EXCEPT !.emitters = EmitterSubscribe(@, em, l),
                  !.nsubs = l,
                  !.wrapper._providerListener = [emitter |-> em, id |-> l]]

\* an update that omits the full-refresh event
update_noRefresh(h, m) ==
    subscribeProvider(constructProvider(releasePrevious(h), m))

\* an update that subscribes to the new adapter before the full refresh
updateUntilFire_subscribeFirst(h, m) ==
    FireOutward(subscribeProvider(constructProvider(releasePrevious(h), m)), Undefined, 0)

\* update up to and including the full-refresh fire, whose listeners then run
updateUntilFire(h, m) ==
    FireOutward(constructProvider(releasePrevious(h), m), Undefined, 0)

\* TreeDataProviderWrapper.update(model)
update(h, m) ==
    subscribeProvider(updateUntilFire(h, m))

(***************************************************************************)
(* Tree queries.  A query's outcome is a tag and a sequence of values:     *)
(* "seq" a sequence of nodes, "node" one node, "item" a TreeItem (by its   *)
(* contextValue), "undefined", or "fault" (a TypeError or a rejection).    *)
(***************************************************************************)
Res(tag, val) == [tag |-> tag, val |-> val]
ResUndefined  == Res("undefined", << >>)
ResFault      == Res("fault", << >>)
ResNode(n)    == IF n = Undefined THEN ResUndefined ELSE Res("node", <<n>>)

\* the nodes an adapter of this kind hands to the host
NodesOf(kind) ==
    CASE kind = "ReferencesProvider"   -> FileItems \cup ReferenceItems
      [] kind = "CallItemDataProvider" -> CallItems
      [] OTHER                         -> HistoryItems

\* ReferencesProvider.getTreeItem; docOk: whether parent.getDocument resolves
ReferencesProvider_getTreeItem(el, docOk) ==
    IF el \in FileItems THEN Res("item", <<"file-item">>)
    ELSE IF docOk THEN Res("item", <<"reference-item">>)
    ELSE ResFault

\* ReferencesProvider.getChildren
ReferencesProvider_getChildren(m, el) ==
    IF el = Undefined THEN Res("seq", items(m))
    ELSE IF el \in FileItems THEN Res("seq", results(el))
    ELSE ResUndefined

\* a getParent that tests for FileItem in place of ReferenceItem
ReferencesProvider_getParent_inverted(el) ==
    IF el \in FileItems THEN ResNode(parentOf(el)) ELSE ResUndefined

\* ReferencesProvider.getParent
ReferencesProvider_getParent(el) ==
    IF el \in ReferenceItems THEN ResNode(parentOf(el)) ELSE ResUndefined

\* CallItemDataProvider.getTreeItem
CallItemDataProvider_getTreeItem(el) == Res("item", <<"call-item">>)

\* CallItemDataProvider.getChildren
CallItemDataProvider_getChildren(m, el) ==
    IF el = Undefined THEN Res("seq", roots(m)) ELSE Res("seq", resolveCalls(m, el))

\* CallItemDataProvider.getParent
CallItemDataProvider_getParent(el) == ResNode(parentOf(el))

\* HistoryDataProvider.getTreeItem
HistoryDataProvider_getTreeItem(el) == Res("item", <<"history-item">>)

\* HistoryDataProvider.getChildren: takes no parameter
HistoryDataProvider_getChildren(hist) == Res("seq", hist)

\* HistoryDataProvider.getParent
HistoryDataProvider_getParent == ResUndefined

\* provider.getTreeItem(element) on the adapter's class
Provider_getTreeItem(ad, el, docOk) ==
    CASE ad.kind = "ReferencesProvider"   -> ReferencesProvider_getTreeItem(el, docOk)
      [] ad.kind = "CallItemDataProvider" -> CallItemDataProvider_getTreeItem(el)
      [] OTHER                            -> HistoryDataProvider_getTreeItem(el)

\* provider.getChildren(element) on the adapter's class
Provider_getChildren(ad, hist, el) ==
    CASE ad.kind = "ReferencesProvider"   -> ReferencesProvider_getChildren(ad.model, el)
      [] ad.kind = "CallItemDataProvider" -> CallItemDataProvider_getChildren(ad.model, el)
      [] OTHER                            -> HistoryDataProvider_getChildren(hist)

\* provider.getParent(element) on the adapter's class
Provider_getParent(ad, el) ==
    CASE ad.kind = "ReferencesProvider"   -> ReferencesProvider_getParent(el)
      [] ad.kind = "CallItemDataProvider" -> CallItemDataProvider_getParent(el)
      [] OTHER                            -> HistoryDataProvider_getParent

\* TreeDataProviderWrapper.getTreeItem: this._provider!.getTreeItem(element)
Wrapper_getTreeItem(w, ads, el, docOk) ==
    IF w._provider = NoProvider THEN ResFault
    ELSE Provider_getTreeItem(ads[w._provider], el, docOk)

\* a getChildren that dereferences the adapter without the ?. guard
Wrapper_getChildren_unguarded(w, ads, hist, el) ==
    IF w._provider = NoProvider THEN ResFault
    ELSE Provider_getChildren(ads[w._provider], hist, el)

\* TreeDataProviderWrapper.getChildren: this._provider?.getChildren(element)
Wrapper_getChildren(w, ads, hist, el) ==
    IF w._provider = NoProvider THEN ResUndefined
    ELSE Provider_getChildren(ads[w._provider], hist, el)

\* TreeDataProviderWrapper.getParent: this._provider?.getParent(element)
Wrapper_getParent(w, ads, el) ==
    IF w._provider = NoProvider THEN ResUndefined
    ELSE Provider_getParent(ads[w._provider], el)

\* an adapter that also resolves the roots' calls when asked for the roots
CallItemDataProvider_resolves_eager(m, op, el) ==
    IF op = "getChildren" THEN (IF el = Undefined THEN roots(m) ELSE <<el>>) ELSE << >>

\* the nodes CallItemDataProvider passes to this._model.resolveCalls in a query:
\* getChildren with an element resolves it, the other queries resolve nothing
CallItemDataProvider_resolves(m, op, el) ==
    IF op = "getChildren" /\ el # Undefined THEN <<el>> ELSE << >>

\* the resolveCalls invocations a query on the wrapper leads to: the other
\* two adapters never call resolveCalls
Wrapper_resolves(w, ads, op, el) ==
    IF w._provider # NoProvider /\ ads[w._provider].kind = "CallItemDataProvider"
    THEN CallItemDataProvider_resolves(ads[w._provider].model, op, el)
    ELSE << >>

\* the class of the active adapter, for the record of a query
ActiveKind == IF wrapper._provider = NoProvider THEN "none"
              ELSE adapters[wrapper._provider].kind

(***************************************************************************)
(* The state machine.                                                      *)
(***************************************************************************)
\* the elements of a sequence
Range(seq) == {seq[i] : i \in 1..Len(seq)}

\* the record of a change event: the adapter bound when it was raised,
\* whether the update that constructed that adapter was still in its
\* full-refresh fire, and how many events the host received for it
Change(m, e, h) ==
    [model |-> m, payload |-> e, active |-> wrapper._provider,
     suspended |-> (wrapper._provider \in Range(stack)),
     forwards |-> Len(h.emitted) - Len(emitted)]

\* no query in flight, none delivered
NoQuery == [op |-> "none", arg |-> Undefined, result |-> ResUndefined,
            adapter |-> NoProvider, started |-> 0, settled |-> 0]

Init ==
    /\ wrapper = [_provider |-> NoProvider, _providerListener |-> NoListener,
                  _onDidChange |-> OutwardEmitter]
    /\ adapters = << >>
    /\ emitters = [i \in {OutwardEmitter} |-> [disposed |-> FALSE, listeners |-> {Host}]]
    /\ nsubs = 0
    /\ history = << >>
    /\ emitted = << >>
    /\ nfires = 0
    /\ fired = << >>
    /\ raised = << >>
    /\ lastCall = [op |-> "none", arg |-> Undefined, result |-> ResUndefined,
                   updates |-> 0, kind |-> "none"]
    /\ historyMark = [active |-> NoProvider, fired |-> 0]
    /\ resolved = << >>
    /\ stack = << >>
    /\ pending = NoQuery
    /\ delivered = NoQuery

SetHeap(h) ==
    /\ wrapper' = h.wrapper
    /\ adapters' = h.adapters
    /\ emitters' = h.emitters
    /\ nsubs' = h.nsubs
    /\ emitted' = h.emitted
    /\ nfires' = h.nfires
    /\ fired' = h.fired

\* the host binds a model
Update(m) ==
    /\ Len(adapters) < MaxUpdates
    /\ stack = << >>
    /\ SetHeap(update(Heap, m))
    /\ resolved' = << >>
    /\ UNCHANGED <<history, raised, lastCall, historyMark, stack, pending, delivered>>

\* a search model raises a change event; active is the adapter bound then
ReferencesModelChange(m, e) ==
    /\ Len(raised) < MaxRaised
    /\ raised' = Append(raised, Change(m, e, RaiseFrom(Heap, m, e, 1)))
    /\ SetHeap(RaiseFrom(Heap, m, e, 1))
    /\ UNCHANGED <<history, lastCall, historyMark, resolved, stack, pending, delivered>>

\* a call-hierarchy model raises a change event: CallItemDataProvider
\* registers no listener on its model, so nothing runs
CallsModelChange(m, e) ==
    /\ Len(raised) < MaxRaised
    /\ raised' = Append(raised, Change(m, e, Heap))
    /\ UNCHANGED <<wrapper, adapters, emitters, nsubs, emitted, nfires, fired, history, lastCall,
                   historyMark, resolved, stack, pending, delivered>>

InHistory(x) == \E i \in 1..Len(history) : history[i] = x

\* the history gains a record
HistoryAdd(x) ==
    /\ Len(history) < MaxHistory
    /\ ~InHistory(x)
    /\ history' = Append(history, x)
    /\ UNCHANGED <<wrapper, adapters, emitters, nsubs, emitted, nfires, fired, raised, lastCall,
                   historyMark, resolved, stack, pending, delivered>>

\* the history loses a record
HistoryRemove(i) ==
    /\ i \in 1..Len(history)
    /\ history' = SubSeq(history, 1, i - 1) \o SubSeq(history, i + 1, Len(history))
    /\ UNCHANGED <<wrapper, adapters, emitters, nsubs, emitted, nfires, fired, raised, lastCall,
                   historyMark, resolved, stack, pending, delivered>>

\* a history change, with the adapter bound then and Len(fired) then noted:
\* HistoryDataProvider registers no listener on the history, so nothing runs
HistoryChange ==
    /\ \/ \E x \in HistoryItems :
             /\ Len(history) < MaxHistory
             /\ ~InHistory(x)
             /\ history' = Append(history, x)
       \/ \E i \in 1..Len(history) :
             history' = SubSeq(history, 1, i - 1) \o SubSeq(history, i + 1, Len(history))
    /\ historyMark' = [active |-> wrapper._provider, fired |-> Len(fired)]
    /\ UNCHANGED <<wrapper, adapters, emitters, nsubs, emitted, nfires, fired, raised, lastCall,
                   resolved, stack, pending, delivered>>

Called(op, el, r) ==
    /\ lastCall' = [op |-> op, arg |-> el, result |-> r,
                    updates |-> Len(adapters), kind |-> ActiveKind]
    /\ resolved' = Wrapper_resolves(wrapper, adapters, op, el)
    /\ UNCHANGED <<wrapper, adapters, emitters, nsubs, history, emitted, nfires, fired, raised,
                   historyMark, stack, pending, delivered>>

\* the host asks for the rendering of a node it holds
GetTreeItem(el, docOk) ==
    /\ wrapper._provider # NoProvider => el \in NodesOf(ActiveKind)
    /\ Called("getTreeItem", el, Wrapper_getTreeItem(wrapper, adapters, el, docOk))

\* the host asks for the roots (no element) or for a node's children
GetChildren(el) ==
    Called("getChildren", el, Wrapper_getChildren(wrapper, adapters, history, el))

\* the host asks for a node's parent
GetParent(el) ==
    Called("getParent", el, Wrapper_getParent(wrapper, adapters, el))

\* the operations that change what is bound and what is emitted
Next ==
    \/ \E m \in Models : Update(m)
    \/ \E m \in ReferencesModels : \E e \in ChangePayloads(m) : ReferencesModelChange(m, e)
    \/ \E m \in CallsModels : \E e \in ChangePayloads(m) : CallsModelChange(m, e)

Spec == Init /\ [][Next]_vars

\* the host's tree queries between rebinds and history changes
NextQuery ==
    \/ \E m \in Models : Update(m)
    \/ \E x \in HistoryItems : HistoryAdd(x)
    \/ \E i \in 1..MaxHistory : HistoryRemove(i)
    \/ \E el \in Elements : \E docOk \in BOOLEAN : GetTreeItem(el, docOk)
    \/ \E el \in Elements \cup {Undefined} : GetChildren(el)
    \/ \E el \in Elements : GetParent(el)

SpecQuery == Init /\ [][NextQuery]_vars

\* rebinds, history changes and search-model changes
NextHistory ==
    \/ \E m \in Models : Update(m)
    \/ HistoryChange
    \/ \E m \in ReferencesModels : \E e \in ChangePayloads(m) : ReferencesModelChange(m, e)

SpecHistory == Init /\ [][NextHistory]_vars

\* the queries that answer with a promise: ReferencesProvider's getTreeItem
\* is an async function, CallItemDataProvider's getChildren returns the
\* model's promise
IsAsync(kind, op) ==
    \/ kind = "ReferencesProvider" /\ op = "getTreeItem"
    \/ kind = "CallItemDataProvider" /\ op = "getChildren"

\* the wrapper returns the adapter's promise; the adapter goes on working
\* with the model it was constructed for
Started(op, el, r) ==
    /\ wrapper._provider # NoProvider
    /\ IsAsync(ActiveKind, op)
    /\ pending = NoQuery
    /\ pending' = [op |-> op, arg |-> el, result |-> r, adapter |-> wrapper._provider,
                   started |-> Len(adapters), settled |-> 0]
    /\ UNCHANGED <<wrapper, adapters, emitters, nsubs, history, emitted, nfires, fired, raised,
                   lastCall, historyMark, resolved, stack, delivered>>

\* the host asks for the rendering of a node; the document fetch is awaited
StartGetTreeItem(el, docOk) ==
    /\ el \in NodesOf(ActiveKind)
    /\ Started("getTreeItem", el, Wrapper_getTreeItem(wrapper, adapters, el, docOk))

\* the host expands a node; the model resolves its calls
StartGetChildren(el) ==
    /\ el \in NodesOf(ActiveKind)
    /\ Started("getChildren", el, Wrapper_getChildren(wrapper, adapters, history, el))

\* the promise settles: the host that holds it receives the outcome,
\* whatever has been bound in the meantime
Settle ==
    /\ pending # NoQuery
    /\ delivered' = [pending EXCEPT !.settled = Len(adapters)]
    /\ pending' = NoQuery
    /\ UNCHANGED <<wrapper, adapters, emitters, nsubs, history, emitted, nfires, fired, raised,
                   lastCall, historyMark, resolved, stack>>

\* queries in flight across rebinds
NextAsync ==
    \/ \E m \in Models : Update(m)
    \/ \E el \in Elements : \E docOk \in BOOLEAN : StartGetTreeItem(el, docOk)
    \/ \E el \in Elements : StartGetChildren(el)
    \/ Settle

SpecAsync == Init /\ [][NextAsync]_vars

\* update runs up to its full-refresh fire; the host's listener is now
\* running and may itself call update or cause a model change
UpdateEnter(m) ==
    /\ Len(adapters) < MaxEnters
    /\ Len(stack) < MaxDepth
    /\ SetHeap(updateUntilFire(Heap, m))
    /\ stack' = Append(stack, Len(adapters) + 1)
    /\ resolved' = << >>
    /\ UNCHANGED <<history, raised, lastCall, historyMark, pending, delivered>>

\* the listeners of the innermost fire have returned: that update subscribes
\* to whatever adapter this._provider holds now, and returns
UpdateReturn ==
    /\ stack # << >>
    /\ SetHeap(subscribeProvider(Heap))
    /\ stack' = SubSeq(stack, 1, Len(stack) - 1)
    /\ UNCHANGED <<history, raised, lastCall, historyMark, resolved, pending, delivered>>

\* updates and model changes, also from inside the host's listener
NextReentrant ==
    \/ \E m \in Models : UpdateEnter(m)
    \/ UpdateReturn
    \/ \E m \in ReferencesModels : \E e \in ChangePayloads(m) : ReferencesModelChange(m, e)

SpecReentrant == Init /\ [][NextReentrant]_vars

(***************************************************************************)
(* Properties.                                                             *)
(***************************************************************************)
\* the events update itself fired while constructing adapter a
RefreshesOf(a) == {i \in 1..Len(emitted) : emitted[i].from = 0 /\ emitted[i].upd = a}

\* the events forwarded from the stream of adapter a
ForwardsOf(a) == {i \in 1..Len(emitted) : emitted[i].from = a}

IsForward(x) == x.from # 0
IsRefresh(x) == x.from = 0

\* C1: every update after the first emits exactly one event without payload
\* on the outward emitter, within the update, and that event precedes every
\* event forwarded from the adapter the update constructed.
C1_RefreshPrecedesNewAdapter ==
    \A a \in 2..Len(adapters) :
        /\ Cardinality(RefreshesOf(a)) = 1
        /\ \A i \in RefreshesOf(a) :
              /\ emitted[i].payload = Undefined
              /\ \A j \in ForwardsOf(a) : i < j

\* a second update has run and its adapter has since forwarded an event
C1_Witness ==
    /\ Len(adapters) >= 2
    /\ ForwardsOf(Len(adapters)) # {}

\* C2: at most one adapter is subscribed to a model's change stream, and
\* it is the active one: a replaced ReferencesProvider has released its
\* model listener by the time the new adapter exists.
C2_OneSubscribedAdapter ==
    /\ Cardinality({a \in 1..Len(adapters) : adapters[a].modelListener}) <= 1
    /\ \A a \in 1..Len(adapters) : adapters[a].modelListener => a = wrapper._provider

\* a ReferencesProvider was replaced by another ReferencesProvider
C2_Witness ==
    /\ Len(adapters) >= 2
    /\ adapters[1].kind = "ReferencesProvider"
    /\ adapters[2].kind = "ReferencesProvider"
    /\ adapters[2].modelListener

\* the change events a search model raised while its adapter was bound
RaisedBound ==
    SelectSeq(raised, LAMBDA r : /\ r.model \in ReferencesModels
                                 /\ r.active # NoProvider
                                 /\ adapters[r.active].model = r.model)

\* C3: every event with an adapter as its origin that reaches the host was
\* forwarded from the adapter bound at that moment, never from a replaced
\* one, and a change raised by a model that is not bound reaches nobody.
C3_NoStaleEvents ==
    /\ \A i \in 1..Len(emitted) :
          IsForward(emitted[i]) => emitted[i].from = emitted[i].upd
    /\ Len(SelectSeq(emitted, IsForward)) <= Len(RaisedBound)

\* a search model raised a change after its adapter had been replaced
C3_Witness ==
    \E i \in 1..Len(raised) :
        /\ raised[i].model \in ReferencesModels
        /\ raised[i].active # NoProvider
        /\ adapters[1].model = raised[i].model
        /\ adapters[raised[i].active].model # raised[i].model

\* the events of the adapters' streams fired while the adapter was active
FiredActive == SelectSeq(fired, LAMBDA x : x.active)

C5_FileItemOrRefresh ==
    /\ Len(fired) = Len(RaisedBound)
    /\ \A i \in 1..Len(fired) :
          /\ fired[i].adapter = RaisedBound[i].active
          /\ RaisedBound[i].payload \in FileItems
                => fired[i].payload = RaisedBound[i].payload
          /\ RaisedBound[i].payload \notin FileItems
                => fired[i].payload = Undefined

\* the bound search model raised a change with a ReferenceItem and one with a FileItem
C5_Witness ==
    /\ \E i \in 1..Len(RaisedBound) : RaisedBound[i].payload \in ReferenceItems
    /\ \E i \in 1..Len(RaisedBound) : RaisedBound[i].payload \in FileItems

\* C6: the wrapper keeps the emitter it was constructed with, it is never
\* disposed, and the listener the host registered before the first update has
\* received the refresh of every update and every event the wrapper forwarded.
C6_OutwardEmitterStable ==
    /\ wrapper._onDidChange = OutwardEmitter
    /\ ~emitters[OutwardEmitter].disposed
    /\ Host \in emitters[OutwardEmitter].listeners
    /\ Len(SelectSeq(emitted, IsRefresh)) = Len(adapters)
    /\ Len(emitted) = nfires

\* a ReferencesProvider was disposed by an update, and a later adapter's event arrived
C6_Witness ==
    /\ Len(adapters) >= 3
    /\ adapters[1].kind = "ReferencesProvider"
    /\ emitters[adapters[1].emitter].disposed
    /\ ForwardsOf(3) # {}

\* no children: an empty sequence, or undefined
NoChildren(r) == r = ResUndefined \/ r = Res("seq", << >>)

\* C7: getChildren of a ReferenceItem on a ReferencesProvider, and of a
\* HistoryItem on a HistoryDataProvider, yields no children and no fault.
C7_TerminalNodesHaveNoChildren ==
    (/\ lastCall.op = "getChildren"
     /\ \/ lastCall.kind = "ReferencesProvider" /\ lastCall.arg \in ReferenceItems
        \/ lastCall.kind = "HistoryDataProvider" /\ lastCall.arg \in HistoryItems)
    => NoChildren(lastCall.result)

\* C8: a query made before the first update yields nothing and does not fault.
C8_UnboundQueriesNeverFault ==
    (lastCall.op # "none" /\ lastCall.updates = 0) => lastCall.result = ResUndefined

\* C9: before the first update getChildren and getParent answer undefined,
\* and the wrapper has no adapter, no subscription and has emitted nothing.
C9_UnboundChildrenParentUndefined ==
    /\ (lastCall.op \in {"getChildren", "getParent"} /\ lastCall.updates = 0)
          => lastCall.result = ResUndefined
    /\ Len(adapters) = 0 =>
          /\ wrapper._provider = NoProvider
          /\ wrapper._providerListener = NoListener
          /\ nsubs = 0
          /\ emitted = << >>
          /\ nfires = 0
          /\ DOMAIN emitters = {OutwardEmitter}

\* getChildren of a node was asked of a wrapper with no update yet
C9_Witness ==
    /\ Len(adapters) = 0
    /\ lastCall.op = "getChildren"
    /\ lastCall.arg \in Elements

\* C10: every change the bound call-hierarchy model raises is emitted with
\* the same payload by the CallItemDataProvider and by the wrapper.
C10_CallsChangesForwarded ==
    \A i \in 1..Len(raised) :
        (/\ raised[i].model \in CallsModels
         /\ raised[i].active # NoProvider
         /\ adapters[raised[i].active].model = raised[i].model)
        => /\ \E j \in 1..Len(fired) :
                 /\ fired[j].adapter = raised[i].active
                 /\ fired[j].payload = raised[i].payload
           /\ \E j \in 1..Len(emitted) :
                 /\ emitted[j].from = raised[i].active
                 /\ emitted[j].payload = raised[i].payload

\* C11: when the history gains or loses a record while its
\* HistoryDataProvider is bound, that adapter's change stream fires.
C11_HistoryChangeFires ==
    (/\ historyMark.active # NoProvider
     /\ adapters[historyMark.active].kind = "HistoryDataProvider")
    => \E j \in (historyMark.fired + 1)..Len(fired) :
           fired[j].adapter = historyMark.active

\* the roots of a model: items, roots, or the history's records in order
RootsOf(m) ==
    CASE m \in ReferencesModels -> items(m)
      [] m \in CallsModels      -> roots(m)
      [] OTHER                  -> history

\* the adapter class that presents a model
AdapterFor(m) ==
    CASE m \in ReferencesModels -> "ReferencesProvider"
      [] m \in CallsModels      -> "CallItemDataProvider"
      [] OTHER                  -> "HistoryDataProvider"

\* C12: once update has bound a model, the active adapter is of the class
\* for that model and the root query returns that model's roots in order,
\* whatever updates came before.
C12_RootsOfBoundModel ==
    /\ wrapper._provider # NoProvider =>
          LET ad == adapters[wrapper._provider]
          IN  /\ wrapper._provider = Len(adapters)
              /\ ad.kind = AdapterFor(ad.model)
              /\ Wrapper_getChildren(wrapper, adapters, history, Undefined)
                    = Res("seq", RootsOf(ad.model))
    /\ (/\ lastCall.op = "getChildren"
        /\ lastCall.arg = Undefined
        /\ lastCall.updates > 0
        /\ lastCall.kind # "HistoryDataProvider")
          => lastCall.result = Res("seq", RootsOf(adapters[lastCall.updates].model))

\* after a call-hierarchy model, the history [h1, h2] is bound and its roots were asked for
C12_Witness ==
    /\ Len(adapters) >= 2
    /\ adapters[Len(adapters) - 1].kind = "CallItemDataProvider"
    /\ adapters[Len(adapters)].model \in Histories
    /\ lastCall.op = "getChildren"
    /\ lastCall.arg = Undefined
    /\ lastCall.updates = Len(adapters)
    /\ lastCall.result = Res("seq", <<"h1", "h2">>)
    /\ history = <<"h1", "h2">>

\* C13: on a ReferencesProvider, the parent of every ReferenceItem among the
\* children of a root FileItem is that FileItem, and a root has no parent.
C13_ParentOfChildIsFile ==
    \A a \in 1..Len(adapters) :
        adapters[a].kind = "ReferencesProvider" =>
            LET top == ReferencesProvider_getChildren(adapters[a].model, Undefined)
            IN  /\ top.tag = "seq"
                /\ \A f \in Range(top.val) :
                      LET kids == ReferencesProvider_getChildren(adapters[a].model, f)
                      IN  /\ ReferencesProvider_getParent(f) = ResUndefined
                          /\ kids.tag = "seq"
                          /\ \A r \in Range(kids.val) :
                                ReferencesProvider_getParent(r) = Res("node", <<f>>)

\* the parent of a ReferenceItem was asked of a bound ReferencesProvider
C13_Witness ==
    /\ lastCall.op = "getParent"
    /\ lastCall.kind = "ReferencesProvider"
    /\ lastCall.arg \in ReferenceItems
    /\ lastCall.result.tag = "node"

\* C15: getTreeItem of a ReferenceItem completes with a TreeItem, also when
\* the document cannot be fetched.
C15_DegradedNodeOnFetchFailure ==
    (/\ lastCall.op = "getTreeItem"
     /\ lastCall.kind = "ReferencesProvider"
     /\ lastCall.arg \in ReferenceItems)
    => lastCall.result.tag = "item"

\* C16: resolveCalls runs once, with n, for a getChildren(n) on the
\* CallItemDataProvider, and for nothing else: not for update, the root
\* query, getParent or getTreeItem; getParent answers the stored parent.
C16_ResolveOnlyOnDemand ==
    /\ resolved # << >> =>
          /\ lastCall.op = "getChildren"
          /\ lastCall.kind = "CallItemDataProvider"
          /\ lastCall.arg # Undefined
          /\ resolved = <<lastCall.arg>>
    /\ (/\ lastCall.op = "getChildren"
        /\ lastCall.kind = "CallItemDataProvider"
        /\ lastCall.arg # Undefined
        /\ lastCall.updates = Len(adapters))
          => resolved = <<lastCall.arg>>
    /\ (lastCall.op = "getParent" /\ lastCall.kind = "CallItemDataProvider")
          => lastCall.result = ResNode(parentOf(lastCall.arg))

\* the children of call node c1 were resolved on demand
C16_Witness ==
    /\ lastCall.op = "getChildren"
    /\ lastCall.kind = "CallItemDataProvider"
    /\ lastCall.arg = "c1"
    /\ resolved = <<"c1">>
    /\ lastCall.result = Res("seq", <<"c2">>)

\* C14: the outcome of a query that was started under one binding and
\* settles after a later update is never handed to the host.
C14_StaleResultsDiscarded ==
    delivered # NoQuery => delivered.settled = delivered.started

\* the changes a search model raised while a ReferencesProvider on it was bound
IsBound(r) ==
    /\ r.model \in ReferencesModels
    /\ r.active # NoProvider
    /\ adapters[r.active].model = r.model

\* C17 as stated: every change a search model raises once its
\* ReferencesProvider exists reaches the host, also one raised while the
\* host's listeners handle the full refresh of the update that constructed it.
C17_NoChangeLost ==
    \A i \in 1..Len(raised) : IsBound(raised[i]) => raised[i].forwards >= 1

\* C17, amended: a change raised after the update that constructed the
\* provider has returned reaches the host; a change raised while that update
\* is still in its full-refresh fire reaches nobody.
C17_LostOnlyDuringRefresh ==
    \A i \in 1..Len(raised) :
        IsBound(raised[i]) =>
            /\ raised[i].suspended => raised[i].forwards = 0
            /\ ~raised[i].suspended => raised[i].forwards >= 1

\* the bound model raised one change during the full refresh and one after update returned
C17_Witness ==
    /\ \E i \in 1..Len(raised) : IsBound(raised[i]) /\ raised[i].suspended
    /\ \E i \in 1..Len(raised) :
          IsBound(raised[i]) /\ ~raised[i].suspended /\ raised[i].forwards >= 1

\* C18: once every update has returned, the only listener on the active
\* adapter's stream is the one in _providerListener, and no change was
\* forwarded twice.
C18_OneListenerInSlot ==
    /\ (stack = << >> /\ wrapper._provider # NoProvider) =>
          LET em == adapters[wrapper._provider].emitter
          IN  /\ wrapper._providerListener.emitter = em
              /\ emitters[em].listeners = {wrapper._providerListener.id}
    /\ \A i \in 1..Len(raised) : raised[i].forwards <= 1

====
